---------------------------- MODULE Spec2Model ----------------------------
(***************************************************************************)
(* Virtual contest manager of atcoder-problems-backend                     *)
(* (sql-client/src/internal/virtual_contest_manager.rs), modelled over a   *)
(* PostgreSQL store.  A statement run on the pool is one atomic step on    *)
(* the committed tables; the statements of update_items that run inside    *)
(* its transaction work on a private write set that COMMIT publishes.      *)
(* The transaction is opened with a plain BEGIN, so it runs at the         *)
(* store's default isolation level, READ COMMITTED: every statement sees   *)
(* the rows committed when it starts, a DELETE that meets a row locked by  *)
(* another open transaction waits for it and skips the row if that         *)
(* transaction commits its deletion, and an INSERT that meets an           *)
(* uncommitted row with the same key waits for its transaction to end.     *)
(* The participant calls of the manager and the contest_problem catalog    *)
(* (src/sql/contest_problem.rs) run one statement each, on the pool or on  *)
(* the caller's connection.                                                *)
(***************************************************************************)
EXTENDS Integers, Sequences, FiniteSets, Bags, TLC

VARIABLES
    contests,   \* table internal_virtual_contests (committed rows)
    items,      \* table internal_virtual_contest_items (committed rows)
    pc,         \* pc[w]: the statement the update_items call of w is at
    arg,        \* arg[w]: the arguments of the update_items call of w
    tx,         \* tx[w]: the write set of the transaction of w
    snap,       \* snap[w]: the live rows the DELETE of w has found
    result,     \* result[w]: what the update_items call of w returns
    ret,        \* the query call of the reading client and what it returned
    participants,     \* table internal_virtual_contest_participants
    internal_users,   \* table internal_users
    contest_problem   \* table contest_problem

\* The tables that no statement of update_items, of a contest query or of
\* create_contest and update_contest names.
others == <<participants, internal_users, contest_problem>>

vars == <<contests, items, pc, arg, tx, snap, result, ret, others>>

----------------------------------------------------------------------------
(* Bounds of the model *)

\* Number of problem ids (the first of ProblemIds) the stored sets are drawn
\* from where a query is checked over all of them.
MaxStoredIds == 3

\* The contest id BulkContestId abbreviates BulkContests contests with
\* distinct ids that agree in every other column.
BulkContests == 999

\* The largest value of the i64 and BIGINT of the model: the 64-bit range
\* narrowed to MinInt..MaxInt.
MaxInt == 7

\* Longest problem list a caller passes, counted in list entries.
MaxListLen == 2

\* The list entry with problem id BulkId abbreviates BulkSize items with
\* consecutive distinct problem ids and the same point and order.
BulkSize == 299

----------------------------------------------------------------------------
(* Constants and types of the program *)

MAX_PROBLEM_NUM_PER_CONTEST == 300
RECENT_CONTEST_NUM == 1000

MinInt == -MaxInt - 1

\* A BIGINT result in range; the store raises "bigint out of range" on one
\* that is not.
InRange(x) == MinInt <= x /\ x <= MaxInt

\* Result<T>
Ok(x) == [ok |-> TRUE, val |-> x]
Err(e) == [ok |-> FALSE, err |-> e]

\* Option<T>: None is the empty tuple, Some(x) the one-element tuple.
None == <<>>
Some(x) == <<x>>

Writers == {"w1", "w2", "w3"}
Users == {"u1", "u2"}
\* "c1" and "c2" exist in the initial store, "c3" does not.
ContestIds == {"c1", "c2", "c3"}

\* Problem ids in ascending order of the column's collation.
ProblemIds == <<"p1", "p2", "p3", "p4">>
BulkId == "p4"

\* Number of items a list entry (or of rows a stored row) stands for.
Width(problem_id) == IF problem_id = BulkId THEN BulkSize ELSE 1

\* struct VirtualContestItem { id, point, order }
VirtualContestItem(id, point, order) ==
    [id |-> id, point |-> point, order |-> order]

\* A row of internal_virtual_contests.
ContestRow(id, title, memo, owner, start, duration, mode, public, penalty) ==
    [id |-> id, title |-> title, memo |-> memo, internal_user_id |-> owner,
     start_epoch_second |-> start, duration_second |-> duration,
     mode |-> mode, is_public |-> public, penalty_second |-> penalty]

\* struct VirtualContestInfo
VirtualContestInfo(id, title, memo, owner, start, duration, mode, public, penalty) ==
    [id |-> id, title |-> title, memo |-> memo, owner_user_id |-> owner,
     start_epoch_second |-> start, duration_second |-> duration,
     mode |-> mode, is_public |-> public, penalty_second |-> penalty]

\* FromRow for VirtualContestInfo: each field from the column of its name,
\* owner_user_id from the column internal_user_id.
InfoFromRow(r) ==
    VirtualContestInfo(r.id, r.title, r.memo, r.internal_user_id,
                       r.start_epoch_second, r.duration_second, r.mode,
                       r.is_public, r.penalty_second)

\* A row of internal_virtual_contest_items.
ItemRow(contest_id, problem_id, point, order) ==
    [internal_virtual_contest_id |-> contest_id, problem_id |-> problem_id,
     user_defined_point |-> point, user_defined_order |-> order]

\* The items callers of update_items build their lists from.
ItemUniverse ==
    { VirtualContestItem("p1", None, None),
      VirtualContestItem("p2", Some(5), Some(1)),
      VirtualContestItem(BulkId, None, Some(2)) }

RECURSIVE SeqsUpTo(_, _)
SeqsUpTo(S, n) ==
    IF n = 0 THEN { <<>> }
    ELSE LET shorter == SeqsUpTo(S, n - 1)
         IN  shorter \cup { Append(s, x) : s \in shorter, x \in S }

ProblemLists == SeqsUpTo(ItemUniverse, MaxListLen)

\* problems.len(): the number of items of a list.
RECURSIVE NumProblems(_)
NumProblems(problems) ==
    IF problems = <<>> THEN 0
    ELSE Width(Head(problems).id) + NumProblems(Tail(problems))

\* Number of rows a set of stored rows stands for.
RECURSIVE RowCount(_)
RowCount(rows) ==
    IF rows = {} THEN 0
    ELSE LET r == CHOOSE x \in rows : TRUE
         IN  Width(r.problem_id) + RowCount(rows \ {r})

\* The rows of one contest (WHERE internal_virtual_contest_id = $1).
ItemsOf(table, contest_id) ==
    { r \in table : r.internal_virtual_contest_id = contest_id }

NoTx == [open |-> FALSE, del |-> {}, ins |-> {}]
OpenTx == [open |-> TRUE, del |-> {}, ins |-> {}]
NoArg == [contest_id |-> "", problems |-> <<>>, user_id |-> ""]
NoRet == [op |-> "none", args |-> <<>>, value |-> <<>>]


\* The ways update_items fails (anyhow errors): the two messages of the
\* function, and the errors of sqlx that `?` passes on: one the store
\* raises on a statement (a constraint violation), and one of the
\* connection, which any statement may meet.
ExceededError == "The number of problems exceeded."
NotExistError == "The target contest does not exist."
DatabaseError == "sqlx::Error::Database"
RowNotFound == "sqlx::Error::RowNotFound"
IoError == "sqlx::Error::Io"

\* A row of internal_virtual_contest_participants.
ParticipantRow(contest_id, internal_user_id) ==
    [internal_virtual_contest_id |-> contest_id,
     internal_user_id |-> internal_user_id]

\* The participants table is a bag of rows, participants[r] the number of
\* copies of row r it holds: the manager relies on no key of the table.
NoParticipants == EmptyBag

\* The public handles (atcoder_user_id), in ascending order of the column's
\* collation.
Handles == <<"alice", "bob">>

\* The users who join and leave contests: the callers of update_items and
\* "u3", the owner of "c2".
Members == Users \cup {"u3"}

\* The internal_users table: a function from the internal_user_id of its
\* rows to the nullable column atcoder_user_id.  "u1" has a handle, "u2"
\* may have one, and "u3" has none or no row.
UserTables ==
    { t \in UNION { [S -> {None} \cup { Some(Handles[i]) :
                                          i \in DOMAIN Handles }] :
                    S \in SUBSET Members } :
         /\ "u1" \in DOMAIN t /\ t["u1"] # None
         /\ "u3" \in DOMAIN t => t["u3"] = None }

\* The users table in which both callers have a handle.
InitUsers == [u \in Users |-> IF u = "u1" THEN Some("alice") ELSE Some("bob")]

\* The store the calls on contests and items run against: "u2" takes part
\* in "c1", both callers have a handle, the problem catalog is empty.
InitOthers ==
    /\ participants = SetToBag({ ParticipantRow("c1", "u2") })
    /\ internal_users = InitUsers
    /\ contest_problem = {}

----------------------------------------------------------------------------
(* update_items *)

\* The ensure! written with < for <=.
WithinLimitStrict(problems) == NumProblems(problems) < MAX_PROBLEM_NUM_PER_CONTEST

\* ensure!(problems.len() <= MAX_PROBLEM_NUM_PER_CONTEST, ...)
WithinLimit(problems) == NumProblems(problems) <= MAX_PROBLEM_NUM_PER_CONTEST

\* The lookup without its internal_user_id = $1 condition.
SelectAnyContest(table, user_id, contest_id) ==
    { r.id : r \in { q \in table : q.id = contest_id } }

\* SELECT id FROM internal_virtual_contests
\* WHERE internal_user_id = $1 AND id = $2
SelectOwnedContest(table, user_id, contest_id) ==
    { r.id : r \in { q \in table : q.internal_user_id = user_id
                                     /\ q.id = contest_id } }

\* The fold that builds the four parallel arrays bound to the INSERT.
FoldColumns(contest_id, problems) ==
    [contest_ids |-> [i \in 1..Len(problems) |-> contest_id],
     problem_ids |-> [i \in 1..Len(problems) |-> problems[i].id],
     points      |-> [i \in 1..Len(problems) |-> problems[i].point],
     orders      |-> [i \in 1..Len(problems) |-> problems[i].order]]

\* VALUES (UNNEST($1), UNNEST($2), UNNEST($3), UNNEST($4)): one row per
\* array position.
Unnest(cols) ==
    [i \in 1..Len(cols.problem_ids) |->
        ItemRow(cols.contest_ids[i], cols.problem_ids[i],
                cols.points[i], cols.orders[i])]

NewRows(contest_id, problems) == Unnest(FoldColumns(contest_id, problems))

SeqRange(s) == { s[i] : i \in 1..Len(s) }

\* Primary key of internal_virtual_contest_items.
SameKey(a, b) ==
    /\ a.internal_virtual_contest_id = b.internal_virtual_contest_id
    /\ a.problem_id = b.problem_id

\* Two rows of one INSERT carry the same key.
DuplicateInList(rows) ==
    \E i, j \in 1..Len(rows) : i < j /\ SameKey(rows[i], rows[j])

\* A row of the INSERT of w meets a committed row with its key that no open
\* transaction has deleted: the unique index rejects it.
KeyTaken(w, rows) ==
    \E i \in 1..Len(rows) : \E q \in items :
        /\ SameKey(rows[i], q)
        /\ \A w2 \in Writers : q \notin tx[w2].del

\* A row of the INSERT of w meets a row with its key that another open
\* transaction has deleted or inserted and not yet committed: the INSERT
\* waits for that transaction to end.
InsertWaits(w, rows) ==
    \E i \in 1..Len(rows) : \E w2 \in Writers \ {w} :
        \E q \in tx[w2].del \cup tx[w2].ins : SameKey(rows[i], q)

\* A row the DELETE of w has found is locked by another open transaction.
DeleteWaits(w) ==
    \E w2 \in Writers \ {w} : tx[w2].del \cap snap[w] # {}

\* An early return that leaves the statements already run in effect.
FailWithoutRollback(w, error) ==
    /\ pc' = [pc EXCEPT ![w] = "done"]
    /\ result' = [result EXCEPT ![w] = error]
    /\ items' = (items \ tx[w].del) \cup tx[w].ins
    /\ tx' = [tx EXCEPT ![w] = NoTx]
    /\ snap' = [snap EXCEPT ![w] = {}]
    /\ UNCHANGED <<others, contests, arg, ret>>

\* An early return that leaves the transaction open behind it.
FailHoldingTransaction(w, error) ==
    /\ pc' = [pc EXCEPT ![w] = "done"]
    /\ result' = [result EXCEPT ![w] = error]
    /\ UNCHANGED <<others, contests, items, arg, tx, snap, ret>>

\* An early return by `?`: the Transaction, if begun, is dropped and with it
\* rolled back.
Fail(w, error) ==
    /\ pc' = [pc EXCEPT ![w] = "done"]
    /\ result' = [result EXCEPT ![w] = error]
    /\ tx' = [tx EXCEPT ![w] = NoTx]
    /\ snap' = [snap EXCEPT ![w] = {}]
    /\ UNCHANGED <<others, contests, items, arg, ret>>

\* The calls a client makes: "w1" is any user calling with any contest id and
\* any list, "w2" is the owner of "c1" replacing its list by a short one,
\* and "w3" is either user writing no item or one to "c1" or to "c3".
Calls(w) ==
    IF w = "w1"
    THEN [contest_id : ContestIds, problems : ProblemLists, user_id : Users]
    ELSE IF w = "w2"
    THEN [contest_id : {"c1"}, problems : SeqsUpTo(ItemUniverse, 1),
          user_id : {"u1"}]
    ELSE [contest_id : {"c1", "c3"},
          problems : { <<>>, <<VirtualContestItem("p1", None, None)>> },
          user_id : Users]

\* The call and its ensure!: no statement is issued yet.
UpdateItemsEnsure(w) ==
    /\ pc[w] = "idle"
    /\ \E call \in Calls(w) :
          /\ arg' = [arg EXCEPT ![w] = call]
          /\ IF WithinLimit(call.problems)
             THEN /\ pc' = [pc EXCEPT ![w] = "lookup"]
                  /\ UNCHANGED result
             ELSE /\ pc' = [pc EXCEPT ![w] = "done"]
                  /\ result' = [result EXCEPT ![w] = ExceededError]
    /\ UNCHANGED <<others, contests, items, tx, snap, ret>>

\* "Checks if the target contest exists": fetch_one on the pool.
UpdateItemsLookup(w) ==
    /\ pc[w] = "lookup"
    /\ IF SelectOwnedContest(contests, arg[w].user_id, arg[w].contest_id) = {}
       THEN Fail(w, NotExistError)
       ELSE /\ pc' = [pc EXCEPT ![w] = "begin"]
            /\ UNCHANGED <<others,
                           contests, items, arg, tx, snap, result, ret>>

\* let mut tx = self.begin().await?;
UpdateItemsBegin(w) ==
    /\ pc[w] = "begin"
    /\ \/ /\ pc' = [pc EXCEPT ![w] = "delete"]
          /\ tx' = [tx EXCEPT ![w] = OpenTx]
          /\ UNCHANGED <<others, contests, items, arg, snap, result, ret>>
       \/ Fail(w, IoError)

\* The DELETE without its WHERE: it finds the rows of every contest.
UpdateItemsDeleteScanAll(w) ==
    /\ pc[w] = "delete"
    /\ \/ /\ pc' = [pc EXCEPT ![w] = "deleting"]
          /\ snap' = [snap EXCEPT ![w] = items]
          /\ UNCHANGED <<others, contests, items, arg, tx, result, ret>>
       \/ Fail(w, IoError)

\* The DELETE with a WHERE that matches no row: the stored rows stay.
UpdateItemsDeleteNothing(w) ==
    /\ pc[w] = "delete"
    /\ \/ /\ pc' = [pc EXCEPT ![w] = "deleting"]
          /\ snap' = [snap EXCEPT ![w] = {}]
          /\ UNCHANGED <<others, contests, items, arg, tx, result, ret>>
       \/ Fail(w, IoError)

\* DELETE ... WHERE internal_virtual_contest_id = $1, first half: the
\* statement takes its snapshot and finds the committed rows of the contest.
UpdateItemsDeleteScan(w) ==
    /\ pc[w] = "delete"
    /\ \/ /\ pc' = [pc EXCEPT ![w] = "deleting"]
          /\ snap' = [snap EXCEPT ![w] = ItemsOf(items, arg[w].contest_id)]
          /\ UNCHANGED <<others, contests, items, arg, tx, result, ret>>
       \/ Fail(w, IoError)

\* The DELETE executed on the pool instead of the transaction: it takes
\* effect on the committed table at once.
UpdateItemsDeleteOnPool(w) ==
    /\ pc[w] = "deleting"
    /\ \/ /\ ~DeleteWaits(w)
          /\ pc' = [pc EXCEPT ![w] = "insert"]
          /\ items' = items \ snap[w]
          /\ snap' = [snap EXCEPT ![w] = {}]
          /\ UNCHANGED <<others, contests, arg, tx, result, ret>>
       \/ Fail(w, IoError)

\* DELETE, second half: once no found row is locked by another transaction,
\* the rows that are still live are deleted in the transaction of w.
UpdateItemsDelete(w) ==
    /\ pc[w] = "deleting"
    /\ \/ /\ ~DeleteWaits(w)
          /\ pc' = [pc EXCEPT ![w] = "insert"]
          /\ tx' = [tx EXCEPT ![w].del = snap[w]]
          /\ snap' = [snap EXCEPT ![w] = {}]
          /\ UNCHANGED <<others, contests, items, arg, result, ret>>
       \/ Fail(w, IoError)

\* INSERT INTO internal_virtual_contest_items ... UNNEST ..., in the
\* transaction of w.
UpdateItemsInsert(w) ==
    /\ pc[w] = "insert"
    /\ LET rows == NewRows(arg[w].contest_id, arg[w].problems)
       IN  \/ /\ ~DuplicateInList(rows)
              /\ ~KeyTaken(w, rows)
              /\ ~InsertWaits(w, rows)
              /\ pc' = [pc EXCEPT ![w] = "commit"]
              /\ tx' = [tx EXCEPT ![w].ins = SeqRange(rows)]
              /\ UNCHANGED <<others, contests, items, arg, snap, result, ret>>
           \/ /\ DuplicateInList(rows) \/ KeyTaken(w, rows)
              /\ Fail(w, DatabaseError)
           \/ Fail(w, IoError)

\* tx.commit().await?; Ok(())
UpdateItemsCommit(w) ==
    /\ pc[w] = "commit"
    /\ \/ /\ items' = (items \ tx[w].del) \cup tx[w].ins
          /\ snap' = [w2 \in Writers |-> snap[w2] \ tx[w].del]
          /\ tx' = [tx EXCEPT ![w] = NoTx]
          /\ pc' = [pc EXCEPT ![w] = "done"]
          /\ result' = [result EXCEPT ![w] = "Ok"]
          /\ UNCHANGED <<others, contests, arg, ret>>
       \/ Fail(w, IoError)

\* The caller takes the result; w is free for its next call.
UpdateItemsReturn(w) ==
    /\ pc[w] = "done"
    /\ pc' = [pc EXCEPT ![w] = "idle"]
    /\ arg' = [arg EXCEPT ![w] = NoArg]
    /\ result' = [result EXCEPT ![w] = "none"]
    /\ UNCHANGED <<others, contests, items, tx, snap, ret>>

----------------------------------------------------------------------------
(* get_single_contest_problems *)

IdRank(problem_id) == CHOOSE i \in 1..Len(ProblemIds) : ProblemIds[i] = problem_id

\* The order with NULL smaller than every value (ASC NULLS FIRST).
OrderAscNullsFirst(a, b) ==
    IF b = None THEN FALSE
    ELSE IF a = None THEN TRUE
    ELSE a[1] < b[1]

\* ORDER BY user_defined_order ASC, problem_id ASC.  PostgreSQL sorts NULL as
\* larger than every value, so ASC places NULL last.
OrderAsc(a, b) ==
    IF a = None THEN FALSE
    ELSE IF b = None THEN TRUE
    ELSE a[1] < b[1]

RowBefore(a, b) ==
    \/ OrderAsc(a.user_defined_order, b.user_defined_order)
    \/ /\ a.user_defined_order = b.user_defined_order
       /\ IdRank(a.problem_id) < IdRank(b.problem_id)

\* FromRow for VirtualContestItem (the rename attributes).
ItemFromRow(r) ==
    VirtualContestItem(r.problem_id, r.user_defined_point, r.user_defined_order)

RECURSIVE SortRows(_)
SortRows(rows) ==
    IF rows = {} THEN <<>>
    ELSE LET first == CHOOSE r \in rows : \A q \in rows \ {r} : RowBefore(r, q)
         IN  <<ItemFromRow(first)>> \o SortRows(rows \ {first})

SelectSingleContestProblems(table, contest_id) ==
    SortRows(ItemsOf(table, contest_id))

GetSingleContestProblems ==
    /\ ret.op = "none"
    /\ \E contest_id \in ContestIds :
          ret' = [op |-> "get_single_contest_problems",
                  args |-> <<contest_id>>,
                  value |-> SelectSingleContestProblems(items, contest_id)]
    /\ UNCHANGED <<others, contests, items, pc, arg, tx, snap, result>>

\* The reading client takes the value of its call.
Return ==
    /\ ret.op # "none"
    /\ ret' = NoRet
    /\ UNCHANGED <<others, contests, items, pc, arg, tx, snap, result>>

----------------------------------------------------------------------------
(* The manager under concurrent update_items calls and a reader *)

\* A store in which two contests have been created: "c1" by "u1", and "c2",
\* holding one item, by a user who makes no call here.
InitContests ==
    { ContestRow("c1", "t1", "m1", "u1", 0, 2, None, TRUE, 0),
      ContestRow("c2", "t2", "m2", "u3", 1, 2, None, FALSE, 0) }

InitItems == { ItemRow("c2", "p3", None, None) }

Init ==
    /\ contests = InitContests
    /\ items = InitItems
    /\ pc = [w \in Writers |-> "idle"]
    /\ arg = [w \in Writers |-> NoArg]
    /\ tx = [w \in Writers |-> NoTx]
    /\ snap = [w \in Writers |-> {}]
    /\ result = [w \in Writers |-> "none"]
    /\ ret = NoRet
    /\ InitOthers

UpdateItems(w) ==
    \/ UpdateItemsEnsure(w)
    \/ UpdateItemsLookup(w)
    \/ UpdateItemsBegin(w)
    \/ UpdateItemsDeleteScan(w)
    \/ UpdateItemsDelete(w)
    \/ UpdateItemsInsert(w)
    \/ UpdateItemsCommit(w)
    \/ UpdateItemsReturn(w)

Next ==
    \/ \E w \in {"w1", "w2"} : UpdateItems(w)
    \/ GetSingleContestProblems
    \/ Return

Spec == Init /\ [][Next]_vars

\* One update_items call in flight at a time, with the reader.
NextOneWriter ==
    \/ UpdateItems("w1")
    \/ GetSingleContestProblems
    \/ Return

SpecOneWriter == Init /\ [][NextOneWriter]_vars

----------------------------------------------------------------------------
(* Properties of update_items *)

\* The step in which the COMMIT of w succeeds.
Commits(w) == pc[w] = "commit" /\ pc'[w] = "done" /\ result'[w] = "Ok"

\* The step in which the reader's get_single_contest_problems runs.
Reads == ret.op = "none" /\ ret'.op = "get_single_contest_problems"

\* The rows a call is to store: one per list entry, with its point and order.
SuppliedRows(call) ==
    { ItemRow(call.contest_id, call.problems[i].id, call.problems[i].point,
              call.problems[i].order) : i \in 1..Len(call.problems) }

\* C1: with one update_items call in flight at a time, a reader sees the old
\* set or the new set in full: the committed rows of a contest, which are
\* what get_single_contest_problems returns, stay as they were before the
\* call through its DELETE and INSERT and change only in the step of its
\* COMMIT, and then to exactly the rows of the supplied list.
C1_ReaderSeesOldOrNew ==
    [][ /\ \A c \in ContestIds :
             \/ ItemsOf(items', c) = ItemsOf(items, c)
             \/ \E w \in Writers :
                   /\ Commits(w)
                   /\ arg[w].contest_id = c
                   /\ ItemsOf(items', c) = SuppliedRows(arg[w])
        /\ Reads =>
             /\ Len(ret'.value) = Cardinality(ItemsOf(items, ret'.args[1]))
             /\ { ItemRow(ret'.args[1], v.id, v.point, v.order) :
                    v \in SeqRange(ret'.value) } = ItemsOf(items, ret'.args[1])
      ]_vars

\* C1 witness: the reader holds the complete old set of "c1", read while the
\* transaction of "w1" has deleted those rows and inserted others.
C1_Witness ==
    /\ pc["w1"] = "commit"
    /\ tx["w1"].del # {}
    /\ tx["w1"].ins # {}
    /\ tx["w1"].ins # tx["w1"].del
    /\ ret.op = "get_single_contest_problems"
    /\ ret.args = <<"c1">>
    /\ { ItemRow("c1", v.id, v.point, v.order) : v \in SeqRange(ret.value) }
          = tx["w1"].del

\* C2: no contest ever holds more than 300 committed item rows.
C2_AtMost300Rows ==
    \A c \in ContestIds :
        RowCount(ItemsOf(items, c)) <= MAX_PROBLEM_NUM_PER_CONTEST

\* C3: the last commit wins: when an update_items call commits, the
\* committed rows of its contest are exactly the rows of its list.
C3_LastCommitWins ==
    [][ \A w \in Writers :
          Commits(w) =>
             ItemsOf(items', arg[w].contest_id) = SuppliedRows(arg[w]) ]_vars

\* C4: a call with more than 300 items returns the limit error at once, with
\* no statement issued and the store as it was, whoever calls; a call with
\* exactly 300 items passes on to the ownership lookup.
C4_LimitChecked ==
    [][ \A w \in Writers :
          (pc[w] = "idle" /\ pc'[w] # "idle") =>
             /\ NumProblems(arg'[w].problems) > 300 =>
                   /\ pc'[w] = "done"
                   /\ result'[w] = ExceededError
                   /\ UNCHANGED <<contests, items, tx, snap>>
             /\ NumProblems(arg'[w].problems) = 300 => pc'[w] = "lookup"
      ]_vars

\* C4 witness: the owner of "c1", which holds items, has had a list of more
\* than 300 items rejected.
C4_Witness ==
    \E w \in Writers :
        /\ pc[w] = "done"
        /\ result[w] = ExceededError
        /\ arg[w].contest_id = "c1"
        /\ arg[w].user_id = "u1"
        /\ NumProblems(arg[w].problems) > 300
        /\ ItemsOf(items, "c1") # {}

\* The contest of the call exists and the caller owns it.
CallerOwnsContest(call) ==
    \E r \in contests : r.id = call.contest_id /\ r.internal_user_id = call.user_id

\* C5: a call for a contest that does not exist, or by a user who does not
\* own it, returns the permission error from the lookup, with no transaction
\* begun and no row deleted or inserted; and whoever is past the lookup owns
\* the contest.
C5_OwnerChecked ==
    [][ \A w \in Writers :
          /\ (pc[w] = "lookup" /\ pc'[w] # "lookup" /\ ~CallerOwnsContest(arg[w])) =>
                /\ pc'[w] = "done"
                /\ result'[w] = NotExistError
                /\ tx'[w] = NoTx
                /\ UNCHANGED <<contests, items>>
          /\ (tx'[w].open \/ pc'[w] = "begin") => CallerOwnsContest(arg'[w])
      ]_vars

\* C5 witness: a user who does not own "c1", which holds items, has been
\* refused.
C5_Witness ==
    \E w \in Writers :
        /\ pc[w] = "done"
        /\ result[w] = NotExistError
        /\ arg[w].contest_id = "c1"
        /\ arg[w].user_id = "u2"
        /\ ItemsOf(items, "c1") # {}

\* C6: a call that fails after its transaction has begun leaves the
\* committed rows as they are and its transaction rolled back; the committed
\* rows, which are all a reader sees, change in no step but a successful
\* COMMIT.
C6_FailureRollsBack ==
    [][ /\ \A w \in Writers :
             (pc[w] # "done" /\ pc'[w] = "done" /\ result'[w] # "Ok") =>
                /\ items' = items
                /\ tx'[w] = NoTx
        /\ items' # items => \E w \in Writers : Commits(w)
        /\ Reads =>
             { ItemRow(ret'.args[1], v.id, v.point, v.order) :
                 v \in SeqRange(ret'.value) } = ItemsOf(items, ret'.args[1])
      ]_vars

\* C6 witness: the INSERT of a call on "c1" was rejected by the unique index
\* after its DELETE, and "c1" still holds its rows.
C6_Witness ==
    \E w \in Writers :
        /\ pc[w] = "done"
        /\ result[w] = DatabaseError
        /\ arg[w].contest_id = "c1"
        /\ ItemsOf(items, "c1") # {}

----------------------------------------------------------------------------
(* get_single_contest_problems over every stored set *)

OrderValues == { None, Some(1), Some(2) }

\* The item sets update_items can have stored for "c1": any of the first
\* MaxStoredIds problem ids, each with any order.
StoredItemSets ==
    { { ItemRow("c1", ProblemIds[i], IF i = 2 THEN Some(5) ELSE None, f[i]) : i \in S } :
        S \in SUBSET (1..MaxStoredIds), f \in [1..MaxStoredIds -> OrderValues] }

InitStored ==
    /\ contests = InitContests
    /\ items \in { InitItems \cup set : set \in StoredItemSets }
    /\ pc = [w \in Writers |-> "idle"]
    /\ arg = [w \in Writers |-> NoArg]
    /\ tx = [w \in Writers |-> NoTx]
    /\ snap = [w \in Writers |-> {}]
    /\ result = [w \in Writers |-> "none"]
    /\ ret = NoRet
    /\ InitOthers

NextProblems ==
    \/ GetSingleContestProblems
    \/ Return

SpecProblems == InitStored /\ [][NextProblems]_vars

\* The value get_single_contest_problems returned holds every row of the
\* contest once.
ReturnsEveryRow ==
    /\ Len(ret.value) = Cardinality(ItemsOf(items, ret.args[1]))
    /\ { ItemRow(ret.args[1], v.id, v.point, v.order) : v \in SeqRange(ret.value) }
          = ItemsOf(items, ret.args[1])

\* C7 as claimed: the items come ordered by order ascending with the items
\* of null order first, ties and nulls by problem id ascending; the set
\* {p1(order null), p2(order 1)} comes as [p1, p2].
C7_NullOrderFirst ==
    ret.op = "get_single_contest_problems" =>
        /\ ReturnsEveryRow
        /\ \A i, j \in 1..Len(ret.value) :
              i < j =>
                 LET a == ret.value[i]
                     b == ret.value[j]
                 IN  \/ a.order = None /\ b.order # None
                     \/ a.order # None /\ b.order # None /\ a.order[1] < b.order[1]
                     \/ a.order = b.order /\ IdRank(a.id) < IdRank(b.id)

\* C7 as amended: the items come ordered by order ascending with the items
\* of null order last, ties and nulls by problem id ascending; the set
\* {p1(order null), p2(order 1)} comes as [p2, p1].
C7_NullOrderLast ==
    ret.op = "get_single_contest_problems" =>
        /\ ReturnsEveryRow
        /\ \A i, j \in 1..Len(ret.value) :
              i < j =>
                 LET a == ret.value[i]
                     b == ret.value[j]
                 IN  \/ a.order # None /\ b.order = None
                     \/ a.order # None /\ b.order # None /\ a.order[1] < b.order[1]
                     \/ a.order = b.order /\ IdRank(a.id) < IdRank(b.id)

\* C7 witness: the set {p1(order null), p2(order 1), p3(order 1)} was read as
\* [p2, p3, p1].
C7_Witness ==
    /\ ret.op = "get_single_contest_problems"
    /\ ret.value = << VirtualContestItem("p2", Some(5), Some(1)),
                      VirtualContestItem("p3", None, Some(1)),
                      VirtualContestItem("p1", None, None) >>

----------------------------------------------------------------------------
(* get_running_contest_problems *)

\* FROM internal_virtual_contest_items AS a LEFT JOIN
\* internal_virtual_contests AS b ON a.internal_virtual_contest_id = b.id:
\* every item row with its contest row, or with None where it has none.
LeftJoinContests(itemTable, contestTable) ==
    { [a |-> a, b |-> Some(b)] :
        <<a, b>> \in { x \in itemTable \X contestTable :
                         x[1].internal_virtual_contest_id = x[2].id } }
    \cup
    { [a |-> a, b |-> None] :
        a \in { x \in itemTable :
                  \A b \in contestTable : x.internal_virtual_contest_id # b.id } }

\* The sum b.start_epoch_second + b.duration_second of a joined row.
EndSecond(j) == j.b[1].start_epoch_second + j.b[1].duration_second

\* WHERE b.start_epoch_second <= $1: its conjunct that is evaluated first
\* (NULL, which is not true, on a row without contest).
StartsBy(j, time) == j.b # None /\ j.b[1].start_epoch_second <= time

\* The second conjunct, evaluated on the rows that pass the first, raises
\* "bigint out of range" when the sum does not fit a BIGINT.
SumOverflows(joined, time) ==
    \E j \in joined : StartsBy(j, time) /\ ~InRange(EndSecond(j))

\* WHERE b.start_epoch_second <= $1
\* AND b.start_epoch_second + b.duration_second >= $1
RunningRows(joined, time) ==
    { j \in joined : StartsBy(j, time) /\ EndSecond(j) >= time }

RECURSIVE JoinedCount(_)
JoinedCount(joined) ==
    IF joined = {} THEN 0
    ELSE LET j == CHOOSE x \in joined : TRUE
         IN  Width(j.a.problem_id) + JoinedCount(joined \ {j})

\* The Vec of (problem_id, end_second), one per selected row, in no
\* particular order: a bag of pairs.
RunningPairs(rows) ==
    LET pair(j) == <<j.a.problem_id, EndSecond(j)>>
    IN  [p \in { pair(j) : j \in rows } |->
            JoinedCount({ j \in rows : pair(j) = p })]

SelectRunningContestProblems(itemTable, contestTable, time) ==
    LET joined == LeftJoinContests(itemTable, contestTable)
    IN  IF SumOverflows(joined, time)
        THEN Err(DatabaseError)
        ELSE Ok(RunningPairs(RunningRows(joined, time)))

GetRunningContestProblems ==
    /\ ret.op = "none"
    /\ \E time \in MinInt..MaxInt :
          ret' = [op |-> "get_running_contest_problems",
                  args |-> <<time>>,
                  value |-> SelectRunningContestProblems(items, contests, time)]
    /\ UNCHANGED <<others, contests, items, pc, arg, tx, snap, result>>

\* The schedules create_contest is called with: (start, duration) with the
\* duration positive, zero, negative and the largest there is.
Schedules == { <<1, 2>>, <<1, 0>>, <<5, -1>>, <<1, MaxInt>> }

\* The stores with "c1" of any schedule, "c2" of any schedule or not created,
\* and any items of the first MaxStoredIds problem ids in either.
ScheduledContests ==
    { { ContestRow("c1", "t1", "m1", "u1", s1[1], s1[2], None, TRUE, 0) } \cup c2 :
        s1 \in Schedules,
        c2 \in { {} } \cup
               { { ContestRow("c2", "t2", "m2", "u2", s2[1], s2[2], None, FALSE, 0) } :
                   s2 \in Schedules } }

InitRunning ==
    /\ contests \in ScheduledContests
    /\ items \in SUBSET { ItemRow(c.id, ProblemIds[i], None, None) :
                            c \in contests, i \in (MaxStoredIds - 1)..MaxStoredIds }
    /\ pc = [w \in Writers |-> "idle"]
    /\ arg = [w \in Writers |-> NoArg]
    /\ tx = [w \in Writers |-> NoTx]
    /\ snap = [w \in Writers |-> {}]
    /\ result = [w \in Writers |-> "none"]
    /\ ret = NoRet
    /\ InitOthers

NextRunning ==
    \/ GetRunningContestProblems
    \/ Return

SpecRunning == InitRunning /\ [][NextRunning]_vars

\* The item rows of the contests whose window [start, start + duration]
\* holds the time.
RowsInWindow(time) ==
    { a \in items :
        \E b \in contests :
            /\ a.internal_virtual_contest_id = b.id
            /\ b.start_epoch_second <= time
            /\ time <= b.start_epoch_second + b.duration_second }

\* C8: get_running_contest_problems(t) returns one (problem_id,
\* start + duration) pair for each item row of each contest with
\* start <= t <= start + duration, and nothing else, in every stored state
\* and at every t.
C8_ExactlyRunningItems ==
    ret.op = "get_running_contest_problems" =>
        /\ ret.value.ok
        /\ LET time == ret.args[1]
               pairOf(a) ==
                   LET b == CHOOSE c \in contests : c.id = a.internal_virtual_contest_id
                   IN  <<a.problem_id, b.start_epoch_second + b.duration_second>>
               pairs == { pairOf(a) : a \in RowsInWindow(time) }
           IN  /\ DOMAIN ret.value.val = pairs
               /\ \A p \in pairs :
                     ret.value.val[p] =
                        RowCount({ a \in RowsInWindow(time) : pairOf(a) = p })

----------------------------------------------------------------------------
(* get_recent_contest_info *)

BulkContestId == "c0"

\* Number of contests a stored contest row stands for.
ContestWidth(id) == IF id = BulkContestId THEN BulkContests ELSE 1

\* The query without its WHERE clause.
AllContests(table) == table

\* WHERE is_public IS TRUE
PublicContests(table) == { r \in table : r.is_public = TRUE }

\* The sort key start_epoch_second + duration_second of a row.
SortKey(r) == r.start_epoch_second + r.duration_second

\* The sort key of a selected row does not fit a BIGINT: the store raises
\* "bigint out of range".
SortKeyOverflows(rows) == \E r \in rows : ~InRange(SortKey(r))

RECURSIVE Arrangements(_)
Arrangements(rows) ==
    IF rows = {} THEN { <<>> }
    ELSE UNION { { <<r>> \o s : s \in Arrangements(rows \ {r}) } : r \in rows }

\* ORDER BY start_epoch_second + duration_second DESC: every arrangement of
\* the rows with the keys not increasing; rows of equal key come in any
\* order.
OrderedByEndDesc(rows) ==
    { s \in Arrangements(rows) :
        \A i, j \in 1..Len(s) : i < j => SortKey(s[i]) >= SortKey(s[j]) }

\* LIMIT $1, and fetch_all into Vec<VirtualContestInfo>: the first n contests
\* of the arrangement, each entry with the number of contests it stands for.
RECURSIVE Limit(_, _)
Limit(s, n) ==
    IF s = <<>> \/ n = 0 THEN <<>>
    ELSE LET w == IF ContestWidth(Head(s).id) <= n
                  THEN ContestWidth(Head(s).id) ELSE n
         IN  <<[info |-> InfoFromRow(Head(s)), count |-> w]>>
                \o Limit(Tail(s), n - w)

GetRecentContestInfo ==
    /\ ret.op = "none"
    /\ LET rows == PublicContests(contests)
       IN  IF SortKeyOverflows(rows)
           THEN ret' = [op |-> "get_recent_contest_info", args |-> <<>>,
                        value |-> Err(DatabaseError)]
           ELSE \E s \in OrderedByEndDesc(rows) :
                   ret' = [op |-> "get_recent_contest_info", args |-> <<>>,
                           value |-> Ok(Limit(s, RECENT_CONTEST_NUM))]
    /\ UNCHANGED <<others, contests, items, pc, arg, tx, snap, result>>

\* The stores with any of "c1", "c2", "c3" and the BulkContests contests of
\* BulkContestId created, each public or not and with one of three schedules.
ListedContests ==
    LET ids == <<"c1", "c2", "c3", BulkContestId>>
        schedules == <<<<0, 1>>, <<0, 2>>, <<1, MaxInt>>>>
    IN  { { ContestRow(ids[i], "t1", "m1", "u1", schedules[f[i][1]][1],
                       schedules[f[i][1]][2], None, f[i][2], 0) : i \in S } :
            S \in SUBSET (1..4), f \in [1..4 -> (1..3) \X BOOLEAN] }

InitRecent ==
    /\ contests \in ListedContests
    /\ items = {}
    /\ pc = [w \in Writers |-> "idle"]
    /\ arg = [w \in Writers |-> NoArg]
    /\ tx = [w \in Writers |-> NoTx]
    /\ snap = [w \in Writers |-> {}]
    /\ result = [w \in Writers |-> "none"]
    /\ ret = NoRet
    /\ InitOthers

NextRecent ==
    \/ GetRecentContestInfo
    \/ Return

SpecRecent == InitRecent /\ [][NextRecent]_vars

RECURSIVE TotalCount(_)
TotalCount(v) == IF v = <<>> THEN 0 ELSE Head(v).count + TotalCount(Tail(v))

RECURSIVE TotalWidth(_)
TotalWidth(rows) ==
    IF rows = {} THEN 0
    ELSE LET r == CHOOSE x \in rows : TRUE
         IN  ContestWidth(r.id) + TotalWidth(rows \ {r})

\* Number of the contests of a stored row that the list holds.
Returned(v, r) ==
    IF \E i \in 1..Len(v) : v[i].info.id = r.id
    THEN v[CHOOSE i \in 1..Len(v) : v[i].info.id = r.id].count
    ELSE 0

InfoEnd(info) == info.start_epoch_second + info.duration_second

\* C9: the list get_recent_contest_info returns holds public contests of
\* the store only, each once, in non-increasing order of start + duration,
\* and 1000 of them at most (all of them when there are no more than 1000);
\* no public contest left out ends later than one in the list.
C9_RecentPublicContests ==
    (ret.op = "get_recent_contest_info" /\ ret.value.ok) =>
        LET v == ret.value.val
            public == { r \in contests : r.is_public }
        IN  /\ \A i \in 1..Len(v) :
                  /\ v[i].info.is_public
                  /\ \E r \in contests :
                        /\ r.id = v[i].info.id
                        /\ r.start_epoch_second = v[i].info.start_epoch_second
                        /\ r.duration_second = v[i].info.duration_second
                        /\ 1 <= v[i].count /\ v[i].count <= ContestWidth(r.id)
            /\ \A i, j \in 1..Len(v) :
                  i < j => /\ v[i].info.id # v[j].info.id
                           /\ InfoEnd(v[i].info) >= InfoEnd(v[j].info)
            /\ TotalCount(v) <= 1000
            /\ TotalWidth(public) <= 1000 => TotalCount(v) = TotalWidth(public)
            /\ TotalWidth(public) > 1000 => TotalCount(v) = 1000
            /\ \A r \in public :
                  Returned(v, r) < ContestWidth(r.id) =>
                     \A i \in 1..Len(v) : SortKey(r) <= InfoEnd(v[i].info)

\* C9 witness: of more than 1000 public contests, beside one that is not
\* public, 1000 are listed and one is left out whole.
C9_Witness ==
    /\ ret.op = "get_recent_contest_info"
    /\ ret.value.ok
    /\ TotalWidth({ r \in contests : r.is_public }) > 1000
    /\ TotalCount(ret.value.val) = 1000
    /\ \E r \in contests : ~r.is_public
    /\ \E r \in contests : r.is_public /\ Returned(ret.value.val, r) = 0

----------------------------------------------------------------------------
(* create_contest, update_contest, get_single_contest_info *)

\* The title, memo, schedule, mode, visibility and penalty the callers of
\* create_contest and update_contest pass.
ContestArgs ==
    { [title |-> "t1", memo |-> "m1", start_epoch_second |-> 0,
       duration_second |-> 2, mode |-> None, is_public |-> TRUE,
       penalty_second |-> 0],
      [title |-> "t2", memo |-> "m2", start_epoch_second |-> 1,
       duration_second |-> MaxInt, mode |-> Some("lockout"), is_public |-> FALSE,
       penalty_second |-> 5],
      [title |-> "t3", memo |-> "m3", start_epoch_second |-> 3,
       duration_second |-> -1, mode |-> Some("normal"), is_public |-> TRUE,
       penalty_second |-> 3] }

\* The INSERT with title and memo bound in each other's place.
InsertedContestSwapped(uuid, internal_user_id, a) ==
    ContestRow(uuid, a.memo, a.title, internal_user_id, a.start_epoch_second,
               a.duration_second, a.mode, a.is_public, a.penalty_second)

\* INSERT INTO internal_virtual_contests (id, title, memo, internal_user_id,
\* start_epoch_second, duration_second, mode, is_public, penalty_second)
\* VALUES ($1, ..., $9) with its nine binds.
InsertedContest(uuid, internal_user_id, a) ==
    ContestRow(uuid, a.title, a.memo, internal_user_id, a.start_epoch_second,
               a.duration_second, a.mode, a.is_public, a.penalty_second)

\* The unique key id of internal_virtual_contests rejects a second row.
ContestIdTaken(table, uuid) == \E r \in table : r.id = uuid

\* Uuid::new_v4() is any id there is; the INSERT runs on the pool.  The
\* parameters are the ids the generator draws and the users and arguments
\* the callers pass.
CreateContestOf(uuids, users, args) ==
    /\ ret.op = "none"
    /\ \E uuid \in uuids, internal_user_id \in users, a \in args :
          \/ /\ ~ContestIdTaken(contests, uuid)
             /\ contests' = contests \cup { InsertedContest(uuid, internal_user_id, a) }
             /\ ret' = [op |-> "create_contest", args |-> <<a, internal_user_id>>,
                        value |-> Ok(uuid)]
          \/ /\ ContestIdTaken(contests, uuid)
             /\ contests' = contests
             /\ ret' = [op |-> "create_contest", args |-> <<a, internal_user_id>>,
                        value |-> Err(DatabaseError)]
          \/ /\ contests' = contests
             /\ ret' = [op |-> "create_contest", args |-> <<a, internal_user_id>>,
                        value |-> Err(IoError)]
    /\ UNCHANGED <<others, items, pc, arg, tx, snap, result>>

CreateContest == CreateContestOf(ContestIds, Users, ContestArgs)

\* The UPDATE as an upsert: a row of the id is written where none matches.
UpsertedContests(table, id, a) ==
    IF \E r \in table : r.id = id
    THEN { IF r.id = id
           THEN [r EXCEPT !.title = a.title, !.memo = a.memo,
                          !.start_epoch_second = a.start_epoch_second,
                          !.duration_second = a.duration_second,
                          !.mode = a.mode, !.is_public = a.is_public,
                          !.penalty_second = a.penalty_second]
           ELSE r : r \in table }
    ELSE table \cup { ContestRow(id, a.title, a.memo, "", a.start_epoch_second,
                                 a.duration_second, a.mode, a.is_public,
                                 a.penalty_second) }

\* The UPDATE without its WHERE: every row takes the new values.
UpdatedAllContests(table, id, a) ==
    { [r EXCEPT !.title = a.title, !.memo = a.memo,
                !.start_epoch_second = a.start_epoch_second,
                !.duration_second = a.duration_second,
                !.mode = a.mode, !.is_public = a.is_public,
                !.penalty_second = a.penalty_second] : r \in table }

\* UPDATE internal_virtual_contests SET title = $1, memo = $2,
\* start_epoch_second = $3, duration_second = $4, mode = $5, is_public = $6,
\* penalty_second = $7 WHERE id = $8
UpdatedContests(table, id, a) ==
    { IF r.id = id
      THEN [r EXCEPT !.title = a.title, !.memo = a.memo,
                     !.start_epoch_second = a.start_epoch_second,
                     !.duration_second = a.duration_second,
                     !.mode = a.mode, !.is_public = a.is_public,
                     !.penalty_second = a.penalty_second]
      ELSE r : r \in table }

UpdateContestOf(ids, args) ==
    /\ ret.op = "none"
    /\ \E id \in ids, a \in args :
          \/ /\ contests' = UpdatedContests(contests, id, a)
             /\ ret' = [op |-> "update_contest", args |-> <<id, a>>,
                        value |-> Ok(<<>>)]
          \/ /\ contests' = contests
             /\ ret' = [op |-> "update_contest", args |-> <<id, a>>,
                        value |-> Err(IoError)]
    /\ UNCHANGED <<others, items, pc, arg, tx, snap, result>>

UpdateContest == UpdateContestOf(ContestIds, ContestArgs)

\* SELECT ... FROM internal_virtual_contests WHERE id = $1, fetch_one.
SelectSingleContestInfo(table, contest_id) ==
    LET rows == { r \in table : r.id = contest_id }
    IN  IF rows = {} THEN Err(RowNotFound)
        ELSE Ok(InfoFromRow(CHOOSE r \in rows : TRUE))

GetSingleContestInfo ==
    /\ ret.op = "none"
    /\ \E contest_id \in ContestIds :
          ret' = [op |-> "get_single_contest_info", args |-> <<contest_id>>,
                  value |-> SelectSingleContestInfo(contests, contest_id)]
    /\ UNCHANGED <<others, contests, items, pc, arg, tx, snap, result>>

\* The store after construction: no contest, no item.
InitEmpty ==
    /\ contests = {}
    /\ items = {}
    /\ pc = [w \in Writers |-> "idle"]
    /\ arg = [w \in Writers |-> NoArg]
    /\ tx = [w \in Writers |-> NoTx]
    /\ snap = [w \in Writers |-> {}]
    /\ result = [w \in Writers |-> "none"]
    /\ ret = NoRet
    /\ participants = NoParticipants
    /\ internal_users = InitUsers
    /\ contest_problem = {}

NextContest ==
    \/ CreateContest
    \/ UpdateContest
    \/ GetSingleContestInfo
    \/ Return

SpecContest == InitEmpty /\ [][NextContest]_vars

\* The stored row is the contest the call passed, field by field.
RowHolds(r, id, internal_user_id, a) ==
    /\ r.id = id
    /\ r.title = a.title
    /\ r.memo = a.memo
    /\ r.internal_user_id = internal_user_id
    /\ r.start_epoch_second = a.start_epoch_second
    /\ r.duration_second = a.duration_second
    /\ r.mode = a.mode
    /\ r.is_public = a.is_public
    /\ r.penalty_second = a.penalty_second

\* The info is the stored row, field by field.
InfoOf(info, r) ==
    /\ info.id = r.id
    /\ info.title = r.title
    /\ info.memo = r.memo
    /\ info.owner_user_id = r.internal_user_id
    /\ info.start_epoch_second = r.start_epoch_second
    /\ info.duration_second = r.duration_second
    /\ info.mode = r.mode
    /\ info.is_public = r.is_public
    /\ info.penalty_second = r.penalty_second

\* C10: a successful create_contest returns an id no earlier call returned
\* and stores under it, in one row, exactly the fields it was passed; no
\* call but update_contest changes a stored row; get_single_contest_info
\* returns the fields of the one row of its id, and fails for an id that was
\* never created.
C10_CreateThenGet ==
    [][ /\ (ret.op = "none" /\ ret'.op = "create_contest" /\ ret'.value.ok) =>
              /\ \A r \in contests : r.id # ret'.value.val
              /\ \E r \in contests' :
                    /\ RowHolds(r, ret'.value.val, ret'.args[2], ret'.args[1])
                    /\ \A q \in contests' : q.id = r.id => q = r
        /\ (ret.op = "none" /\ ret'.op # "update_contest") =>
              contests \subseteq contests'
        /\ (ret.op = "none" /\ ret'.op = "get_single_contest_info") =>
              IF \E r \in contests : r.id = ret'.args[1]
              THEN /\ ret'.value.ok
                   /\ \A r \in contests :
                         r.id = ret'.args[1] => InfoOf(ret'.value.val, r)
              ELSE ~ret'.value.ok
      ]_vars

\* C10 witness: get_single_contest_info has returned the contest created
\* with the second of the argument sets, beside another contest.
C10_Witness ==
    /\ ret.op = "get_single_contest_info"
    /\ ret.value.ok
    /\ ret.value.val.title = "t2"
    /\ ret.value.val.mode = Some("lockout")
    /\ ret.value.val.owner_user_id = "u2"
    /\ Cardinality(contests) >= 2

----------------------------------------------------------------------------
(* join_contest, leave_contest and the two participant queries *)

\* Most rows the participants table holds.
MaxParticipations == 3

\* A key on (contest, user) or a reference to the contests table, if the
\* schema declares one, refuses the INSERT of join_contest.
ConstraintMayRefuse(table, contestTable, contest_id, internal_user_id) ==
    \/ CopiesIn(ParticipantRow(contest_id, internal_user_id), table) > 0
    \/ \A c \in contestTable : c.id # contest_id

\* INSERT INTO internal_virtual_contest_participants VALUES ($1, $2)
InsertedParticipant(table, contest_id, internal_user_id) ==
    table (+) SetToBag({ ParticipantRow(contest_id, internal_user_id) })

JoinContestOf(contest_ids, users) ==
    /\ ret.op = "none"
    /\ BagCardinality(participants) < MaxParticipations
    /\ \E contest_id \in contest_ids, internal_user_id \in users :
          \/ /\ participants' =
                   InsertedParticipant(participants, contest_id,
                                       internal_user_id)
             /\ ret' = [op |-> "join_contest",
                        args |-> <<contest_id, internal_user_id>>,
                        value |-> Ok(<<>>)]
          \/ /\ ConstraintMayRefuse(participants, contests, contest_id,
                                    internal_user_id)
             /\ participants' = participants
             /\ ret' = [op |-> "join_contest",
                        args |-> <<contest_id, internal_user_id>>,
                        value |-> Err(DatabaseError)]
          \/ /\ participants' = participants
             /\ ret' = [op |-> "join_contest",
                        args |-> <<contest_id, internal_user_id>>,
                        value |-> Err(IoError)]
    /\ UNCHANGED <<contests, items, pc, arg, tx, snap, result,
                   internal_users, contest_problem>>

JoinContest == JoinContestOf(ContestIds, Members)

\* DELETE that names only the contest: every participant of it goes.
DeletedContestParticipants(table, contest_id, internal_user_id) ==
    [r \in { x \in DOMAIN table :
                x.internal_virtual_contest_id # contest_id } |-> table[r]]

\* DELETE FROM internal_virtual_contest_participants
\* WHERE internal_virtual_contest_id = $1 AND internal_user_id = $2
DeletedParticipants(table, contest_id, internal_user_id) ==
    [r \in DOMAIN table \ { ParticipantRow(contest_id, internal_user_id) } |->
        table[r]]

\* rows_affected is the count the store reports for the DELETE; the function
\* drops it and returns Ok(()).
LeaveContestOf(contest_ids, users) ==
    /\ ret.op = "none"
    /\ \E contest_id \in contest_ids, internal_user_id \in users :
          \/ /\ participants' =
                   DeletedParticipants(participants, contest_id,
                                       internal_user_id)
             /\ ret' = [op |-> "leave_contest",
                        args |-> <<contest_id, internal_user_id>>,
                        value |-> Ok(<<>>),
                        rows_affected |->
                            CopiesIn(ParticipantRow(contest_id,
                                                    internal_user_id),
                                     participants)]
          \/ /\ participants' = participants
             /\ ret' = [op |-> "leave_contest",
                        args |-> <<contest_id, internal_user_id>>,
                        value |-> Err(IoError), rows_affected |-> 0]
    /\ UNCHANGED <<contests, items, pc, arg, tx, snap, result,
                   internal_users, contest_problem>>

LeaveContest == LeaveContestOf(ContestIds, Members)

\* The sub-select of get_single_contest_participants: the participation
\* rows of one contest.
ParticipantsOfContest(table, contest_id) ==
    { r \in DOMAIN table : r.internal_virtual_contest_id = contest_id }

\* LEFT JOIN internal_users ... WHERE b.atcoder_user_id IS NOT NULL: the
\* rows of a whose user has a row with the handle h.  A user without a row
\* joins to NULL columns and falls to the WHERE like a NULL handle.
RowsWithHandle(a, userTable, h) ==
    { r \in a : /\ r.internal_user_id \in DOMAIN userTable
                /\ userTable[r.internal_user_id] = Some(h) }

\* Number of copies the bag holds of the rows of a set.
RECURSIVE CopiesOfAll(_, _)
CopiesOfAll(table, rows) ==
    IF rows = {} THEN 0
    ELSE LET r == CHOOSE x \in rows : TRUE
         IN  CopiesIn(r, table) + CopiesOfAll(table, rows \ {r})

RECURSIVE Repeat(_, _)
Repeat(x, n) == IF n = 0 THEN <<>> ELSE <<x>> \o Repeat(x, n - 1)

\* The handles in descending order: one entry for every joined row, handle
\* after handle from position i of Handles down.
RECURSIVE HandlesDescFrom(_, _, _, _)
HandlesDescFrom(i, table, a, userTable) ==
    IF i > Len(Handles) THEN <<>>
    ELSE HandlesDescFrom(i + 1, table, a, userTable)
         \o Repeat(Handles[i],
                   CopiesOfAll(table, RowsWithHandle(a, userTable, Handles[i])))

\* ORDER BY b.atcoder_user_id ASC, then the handle of each row: one entry
\* for every joined row, handle after handle from position i of Handles on.
RECURSIVE HandlesAscFrom(_, _, _, _)
HandlesAscFrom(i, table, a, userTable) ==
    IF i > Len(Handles) THEN <<>>
    ELSE Repeat(Handles[i],
                CopiesOfAll(table, RowsWithHandle(a, userTable, Handles[i])))
         \o HandlesAscFrom(i + 1, table, a, userTable)

SelectParticipantHandles(table, userTable, contest_id) ==
    HandlesAscFrom(1, table, ParticipantsOfContest(table, contest_id),
                   userTable)

GetSingleContestParticipants ==
    /\ ret.op = "none"
    /\ \E contest_id \in ContestIds :
          \/ ret' = [op |-> "get_single_contest_participants",
                     args |-> <<contest_id>>,
                     value |-> Ok(SelectParticipantHandles(
                                     participants, internal_users,
                                     contest_id))]
          \/ ret' = [op |-> "get_single_contest_participants",
                     args |-> <<contest_id>>,
                     value |-> Err(IoError)]
    /\ UNCHANGED <<others, contests, items, pc, arg, tx, snap, result>>

\* The store the participant calls run against: the contests "c1" and "c2",
\* nobody taking part yet, any users table.
InitLedger ==
    /\ contests = InitContests
    /\ items = InitItems
    /\ pc = [w \in Writers |-> "idle"]
    /\ arg = [w \in Writers |-> NoArg]
    /\ tx = [w \in Writers |-> NoTx]
    /\ snap = [w \in Writers |-> {}]
    /\ result = [w \in Writers |-> "none"]
    /\ ret = NoRet
    /\ participants = NoParticipants
    /\ internal_users \in UserTables
    /\ contest_problem = {}

\* FROM internal_virtual_contests AS a LEFT JOIN
\* internal_virtual_contest_participants AS b ON a.id = b.internal_virtual_contest_id:
\* the contest rows, each with the number of participation rows of the user
\* it joins to (WHERE b.internal_user_id = $1 drops the contests that join
\* to none).
JoinedContests(contestTable, table, internal_user_id) ==
    { a \in contestTable :
         CopiesIn(ParticipantRow(a.id, internal_user_id), table) > 0 }

\* The join that counts each contest once, however many rows it joins to.
SelectDistinctParticipatedContests(contestTable, table, internal_user_id) ==
    LET joined == JoinedContests(contestTable, table, internal_user_id)
    IN  [info \in { InfoFromRow(a) : a \in joined } |-> 1]

\* The Vec get_participated_contests returns, as the bag of its entries
\* (the query has no ORDER BY): one entry for every joined pair of rows.
SelectParticipatedContests(contestTable, table, internal_user_id) ==
    LET joined == JoinedContests(contestTable, table, internal_user_id)
    IN  [info \in { InfoFromRow(a) : a \in joined } |->
            CopiesIn(ParticipantRow(info.id, internal_user_id), table)]

GetParticipatedContests ==
    /\ ret.op = "none"
    /\ \E internal_user_id \in Members :
          \/ ret' = [op |-> "get_participated_contests",
                     args |-> <<internal_user_id>>,
                     value |-> Ok(SelectParticipatedContests(
                                     contests, participants,
                                     internal_user_id))]
          \/ ret' = [op |-> "get_participated_contests",
                     args |-> <<internal_user_id>>,
                     value |-> Err(IoError)]
    /\ UNCHANGED <<others, contests, items, pc, arg, tx, snap, result>>

NextLedger ==
    \/ JoinContest
    \/ LeaveContest
    \/ GetSingleContestParticipants
    \/ GetParticipatedContests
    \/ Return

SpecLedger == InitLedger /\ [][NextLedger]_vars

----------------------------------------------------------------------------
(* Properties of the participant calls *)

\* The step in which the one client's call of the operation returns.
Calls_(op) == ret.op = "none" /\ ret'.op = op

\* Number of entries of a list that equal x.
Entries(list, x) == Cardinality({ i \in DOMAIN list : list[i] = x })

\* The users the users table gives the handle h.
UsersWithHandle(h) ==
    { u \in DOMAIN internal_users : internal_users[u] = Some(h) }

\* leave_contest(c, u) deletes every row of (c, u), however many joins
\* wrote, and no row of another pair.
LeaveDeletesThePair ==
    LET row == ParticipantRow(ret'.args[1], ret'.args[2])
    IN  /\ CopiesIn(row, participants') = 0
        /\ \A r \in DOMAIN participants \cup DOMAIN participants' :
              r # row => CopiesIn(r, participants')
                            = CopiesIn(r, participants)

\* What get_single_contest_participants(c) returns once the leave_contest
\* that is returning has deleted its rows.
ListAfterLeave ==
    SelectParticipantHandles(participants', internal_users, ret'.args[1])

\* C11 as the claim has it: leave_contest(c, u) after one or more
\* join_contest(c, u) leaves no participation row of (c, u) and every row of
\* another pair as it was, and the participants list of c afterwards does
\* not contain the handle of u.
C11_LeaveDropsHandle ==
    [][ (Calls_("leave_contest") /\ ret'.value.ok
            /\ ret'.rows_affected >= 1) =>
           /\ LeaveDeletesThePair
           /\ \A h \in SeqRange(Handles) :
                 ret'.args[2] \in UsersWithHandle(h)
                    => Entries(ListAfterLeave, h) = 0
      ]_vars

\* C11: leave_contest(c, u) after one or more join_contest(c, u) leaves no
\* participation row of (c, u) and every row of another pair as it was, and
\* the participants list of c afterwards holds no entry for u: it holds a
\* handle once for every participation row of c of another user with that
\* handle, so the handle of u only for other users who share it.
C11_LeaveDropsEntries ==
    [][ (Calls_("leave_contest") /\ ret'.value.ok
            /\ ret'.rows_affected >= 1) =>
           /\ LeaveDeletesThePair
           /\ \A h \in SeqRange(Handles) :
                 Entries(ListAfterLeave, h) =
                     CopiesOfAll(participants,
                                 { ParticipantRow(ret'.args[1], u) :
                                      u \in UsersWithHandle(h)
                                                \ { ret'.args[2] } })
      ]_vars

\* C11 witness: "u1" has left "c1" after joining it twice, and "u2", who
\* has the same handle, still takes part in it.
C11_Witness ==
    /\ ret.op = "leave_contest"
    /\ ret.value.ok
    /\ ret.args = <<"c1", "u1">>
    /\ ret.rows_affected = 2
    /\ CopiesIn(ParticipantRow("c1", "u2"), participants) = 1
    /\ internal_users = [u \in Users |-> Some("alice")]

\* Position of a handle in the ascending order of the column.
HandleRank(h) == CHOOSE i \in DOMAIN Handles : Handles[i] = h

\* C12: get_single_contest_participants(c) returns the handles of exactly
\* the users who have a participation row of c and a row with a handle in
\* the users table (no participant without a users row or with a null
\* handle, no participant of another contest only), in ascending order of
\* the handle.
C12_HandlesOfParticipants ==
    [][ (Calls_("get_single_contest_participants") /\ ret'.value.ok) =>
           LET list == ret'.value.val
           IN  /\ SeqRange(list) =
                     { h \in SeqRange(Handles) :
                          \E u \in UsersWithHandle(h) :
                              CopiesIn(ParticipantRow(ret'.args[1], u),
                                       participants) > 0 }
               /\ \A i, j \in DOMAIN list :
                     i < j => HandleRank(list[i]) <= HandleRank(list[j])
      ]_vars

\* C12 witness: of the three participants of "c1", "u3" has no handle and
\* the other two are listed by handle, the second user first.
C12_Witness ==
    /\ ret.op = "get_single_contest_participants"
    /\ ret.args = <<"c1">>
    /\ ret.value.ok
    /\ ret.value.val = <<"alice", "bob">>
    /\ internal_users["u1"] = Some("bob")
    /\ CopiesIn(ParticipantRow("c1", "u3"), participants) = 1

----------------------------------------------------------------------------
(* Calls that match no row *)

\* update_contest and leave_contest against a store that holds the contests
\* "c1" and "c2" and one participant, beside join_contest.
NextSilent ==
    \/ UpdateContest
    \/ JoinContest
    \/ LeaveContest
    \/ Return

SpecSilent == Init /\ [][NextSilent]_vars

\* The call that is returning has left every table as it was.
StoreUnchanged ==
    /\ contests' = contests
    /\ items' = items
    /\ participants' = participants
    /\ internal_users' = internal_users
    /\ contest_problem' = contest_problem

\* The call that is returning reports no error of the statement: it returns
\* Ok, or the error of a lost connection that any call may meet.
NoStatementError == ret'.value.ok \/ ret'.value.err = IoError

\* C13: update_contest with an id that matches no contest and leave_contest
\* for a pair with no participation row report no error and leave the whole
\* store unchanged, and update_contest never creates a row.
C13_NoMatchNoChange ==
    [][ /\ (/\ Calls_("update_contest")
            /\ \A r \in contests : r.id # ret'.args[1]) =>
               NoStatementError /\ StoreUnchanged
        /\ Calls_("update_contest") =>
               { r.id : r \in contests' } = { r.id : r \in contests }
        /\ (/\ Calls_("leave_contest")
            /\ CopiesIn(ParticipantRow(ret'.args[1], ret'.args[2]),
                        participants) = 0) =>
               NoStatementError /\ StoreUnchanged
      ]_vars

\* C13 witness: update_contest has returned Ok for "c3", which does not
\* exist, in a store that holds contests and participants.
C13_Witness ==
    /\ ret.op = "update_contest"
    /\ ret.args[1] = "c3"
    /\ ret.value.ok
    /\ \A r \in contests : r.id # "c3"
    /\ Cardinality(contests) = 2
    /\ BagCardinality(participants) >= 2

----------------------------------------------------------------------------
(* Further properties of update_items *)

\* C14: with no other writer at work, an update_items call that succeeds
\* replaces the whole item set of its contest: the committed rows of the
\* contest are then exactly the supplied items, one row for each entry with
\* its problem id, point and order, no earlier row stays unless the list
\* names it, and an empty list leaves no row.
C14_ReplacesWholeSet ==
    [][ \A w \in Writers :
          Commits(w) =>
             LET c == arg[w].contest_id
                 new == ItemsOf(items', c)
             IN  /\ new = SuppliedRows(arg[w])
                 /\ RowCount(new) = NumProblems(arg[w].problems)
                 /\ ItemsOf(items, c) \cap new \subseteq SuppliedRows(arg[w])
                 /\ arg[w].problems = <<>> => new = {}
      ]_vars

\* C14 witness: the call has committed a list of two entries, 300 items,
\* over the item the reader saw in the contest before.
C14_Witness ==
    /\ pc["w1"] = "done"
    /\ result["w1"] = "Ok"
    /\ arg["w1"].contest_id = "c1"
    /\ Len(arg["w1"].problems) = 2
    /\ ItemsOf(items, "c1") = SuppliedRows(arg["w1"])
    /\ RowCount(ItemsOf(items, "c1")) = MAX_PROBLEM_NUM_PER_CONTEST
    /\ ret.op = "get_single_contest_problems"
    /\ ret.args = <<"c1">>
    /\ ret.value = <<VirtualContestItem("p2", Some(5), Some(1))>>

\* The error with which the call of w has just returned, after its
\* transaction had begun.
FailsInTransaction(w) ==
    tx[w].open /\ pc'[w] = "done" /\ result'[w] # "Ok"

\* C17: every transaction update_items begins is ended when the call
\* returns: its changes are committed when the call succeeds, and on an
\* error of the DELETE, the INSERT or the COMMIT they are rolled back; a call
\* that has returned, or has not reached its BEGIN, holds no transaction and
\* no uncommitted change, and a call that fails the limit or the ownership
\* check never had one.
C17_TransactionEndsWithCall ==
    [][ \A w \in Writers :
          /\ pc'[w] \in {"idle", "lookup", "begin", "done"} =>
                tx'[w] = NoTx /\ snap'[w] = {}
          /\ Commits(w) =>
                /\ tx[w].open
                /\ items' = (items \ tx[w].del) \cup tx[w].ins
          /\ FailsInTransaction(w) =>
                /\ pc[w] \in {"delete", "deleting", "insert", "commit"}
                /\ items' = items
          /\ (pc'[w] = "done"
              /\ result'[w] \in {ExceededError, NotExistError}) =>
                ~tx[w].open /\ pc[w] \in {"idle", "lookup", "done"}
      ]_vars

\* C17 witness: one call has returned Ok and the other the error of its
\* INSERT, which ran after its DELETE, and neither holds a transaction.
C17_Witness ==
    /\ pc["w1"] = "done"
    /\ result["w1"] = DatabaseError
    /\ ~DuplicateInList(NewRows(arg["w1"].contest_id, arg["w1"].problems))
    /\ pc["w2"] = "done"
    /\ result["w2"] = "Ok"
    /\ \A w \in Writers : tx[w] = NoTx

\* The contest the update_items call of w names, in a step of that call.
ContestOfCall(w) ==
    IF pc[w] = "idle" THEN arg'[w].contest_id ELSE arg[w].contest_id

\* C19: an update_items(c, items, user) call, whether it succeeds or fails,
\* changes nothing but the item rows of c: in each of its steps the items of
\* every other contest, every contest row and every participation row stay
\* as they were.
C19_OnlyItemsOfContest ==
    [][ \A w \in Writers :
          pc'[w] # pc[w] =>
             /\ \A c \in ContestIds \ { ContestOfCall(w) } :
                   ItemsOf(items', c) = ItemsOf(items, c)
             /\ contests' = contests
             /\ participants' = participants
             /\ internal_users' = internal_users
             /\ contest_problem' = contest_problem
      ]_vars

\* C19 witness: the call has replaced the items of "c1" while "c2" holds
\* its item and "c1" its participant.
C19_Witness ==
    /\ pc["w1"] = "done"
    /\ result["w1"] = "Ok"
    /\ arg["w1"].contest_id = "c1"
    /\ ItemsOf(items, "c1") # {}
    /\ ItemsOf(items, "c2") = InitItems
    /\ contests = InitContests
    /\ CopiesIn(ParticipantRow("c1", "u2"), participants) = 1

----------------------------------------------------------------------------
(* Further properties of create_contest and update_contest *)

\* The columns of a contest row that update_contest does not set.
KeptColumns(r) == [id |-> r.id, internal_user_id |-> r.internal_user_id]

\* C15: the ids of the stored contests are pairwise distinct; no call changes
\* the id or the owner of a stored contest or removes it; update_contest
\* writes title, memo, start, duration, mode, is_public and penalty of the
\* row with the given id, as passed, and leaves every other row as it was.
C15_IdAndOwnerFixed ==
    [][ /\ \A r, q \in contests' : r.id = q.id => r = q
        /\ \A r \in contests :
              \E q \in contests' : KeptColumns(q) = KeptColumns(r)
        /\ (Calls_("update_contest") /\ ret'.value.ok) =>
              /\ Cardinality(contests') = Cardinality(contests)
              /\ \A r \in contests :
                    IF r.id = ret'.args[1]
                    THEN \E q \in contests' :
                            RowHolds(q, r.id, r.internal_user_id, ret'.args[2])
                    ELSE r \in contests'
      ]_vars

\* C15 witness: update_contest has rewritten the contest "c1" of "u2" with
\* the second of the argument sets, beside a contest of "u1" that still has
\* the first.
C15_Witness ==
    /\ ret.op = "update_contest"
    /\ ret.args[1] = "c1"
    /\ ret.value.ok
    /\ \E r \in contests :
          /\ r.id = "c1"
          /\ r.internal_user_id = "u2"
          /\ r.title = "t2"
          /\ r.mode = Some("lockout")
    /\ \E r \in contests :
          /\ r.id = "c2"
          /\ r.internal_user_id = "u1"
          /\ r.title = "t1"

----------------------------------------------------------------------------
(* Further properties of the participant calls *)

\* Number of entries of a returned bag of contests that have the id.
ListedTimes(bag, contest_id) ==
    CopiesOfAll(bag, { info \in DOMAIN bag : info.id = contest_id })

\* C16: get_participated_contests(u) returns the contest c if and only if
\* the contest row exists and (c, u) has a participation row: a row for a
\* contest that does not exist adds nothing, the contest is gone from the
\* list once leave_contest(c, u) has run, and it is listed once for every
\* participation row of (c, u), k times after k joins.
C16_ListedOncePerRow ==
    [][ /\ (Calls_("get_participated_contests") /\ ret'.value.ok) =>
              /\ \A info \in DOMAIN ret'.value.val :
                    \E r \in contests : InfoOf(info, r)
              /\ \A c \in ContestIds :
                    ListedTimes(ret'.value.val, c) =
                       IF \E r \in contests : r.id = c
                       THEN CopiesIn(ParticipantRow(c, ret'.args[1]),
                                     participants)
                       ELSE 0
        /\ (Calls_("leave_contest") /\ ret'.value.ok) =>
              ListedTimes(SelectParticipatedContests(contests, participants',
                                                     ret'.args[2]),
                          ret'.args[1]) = 0
      ]_vars

\* C16 witness: "u2" has joined "c1" twice and "c3", which does not exist,
\* once, and the call has returned "c1" twice and nothing else.
C16_Witness ==
    /\ ret.op = "get_participated_contests"
    /\ ret.args = <<"u2">>
    /\ ret.value.ok
    /\ ListedTimes(ret.value.val, "c1") = 2
    /\ ListedTimes(ret.value.val, "c3") = 0
    /\ CopiesIn(ParticipantRow("c1", "u2"), participants) = 2
    /\ CopiesIn(ParticipantRow("c3", "u2"), participants) = 1

----------------------------------------------------------------------------
(* update_items beside the calls that write contests and participants *)

\* The calls of "w3" interleaved, statement by statement, with a client
\* that creates the contest "c3" for either user (or draws the id of "c1",
\* which is taken), rewrites "c1" and "c3", and has "u2" join and leave "c1".
NextAuth ==
    \/ UpdateItems("w3")
    \/ CreateContestOf({"c1", "c3"}, Users,
                       { a \in ContestArgs : a.title = "t1" })
    \/ UpdateContestOf({"c1", "c3"}, { a \in ContestArgs : a.title = "t2" })
    \/ JoinContestOf({"c1"}, {"u2"})
    \/ LeaveContestOf({"c1"}, {"u2"})
    \/ Return

SpecAuth == Init /\ [][NextAuth]_vars

\* C18: whatever the interleaving, and although the ownership lookup runs
\* on the pool before BEGIN, an update_items call that commits acts for the
\* user who owns its contest when it commits; the item rows change in no
\* step but such a commit, and then only those of the caller's contest; and
\* no call takes a contest away or gives it another owner.
C18_OwnerAtCommit ==
    [][ /\ \A w \in Writers : Commits(w) => CallerOwnsContest(arg[w])
        /\ items' # items =>
              \E w \in Writers :
                  /\ Commits(w)
                  /\ CallerOwnsContest(arg[w])
                  /\ \A c \in ContestIds \ { arg[w].contest_id } :
                        ItemsOf(items', c) = ItemsOf(items, c)
        /\ \A r \in contests :
              \E q \in contests' : KeptColumns(q) = KeptColumns(r)
      ]_vars

\* C18 witness: "u2" has committed an item to "c3", which was created and
\* then rewritten while the store ran, and takes part in "c1", which was
\* rewritten too and holds no item.
C18_Witness ==
    /\ pc["w3"] = "done"
    /\ result["w3"] = "Ok"
    /\ arg["w3"].contest_id = "c3"
    /\ arg["w3"].user_id = "u2"
    /\ ItemsOf(items, "c3") = { ItemRow("c3", "p1", None, None) }
    /\ ItemsOf(items, "c1") = {}
    /\ \E r \in contests :
          r.id = "c3" /\ r.internal_user_id = "u2" /\ r.title = "t2"
    /\ \E r \in contests :
          r.id = "c1" /\ r.internal_user_id = "u1" /\ r.title = "t2"
    /\ CopiesIn(ParticipantRow("c1", "u2"), participants) = 2

----------------------------------------------------------------------------
(* The contest_problem catalog (src/sql/contest_problem.rs) *)

\* Longest slice a caller passes to insert_contest_problem.
MaxBatch == 2

\* struct ContestProblem, a row of the table contest_problem: the two key
\* columns, and `other` for whatever further columns the row carries.
ContestProblem(contest_id, problem_id, other) ==
    [contest_id |-> contest_id, problem_id |-> problem_id, other |-> other]

\* The rows callers build their slices from.
ContestProblems ==
    { ContestProblem(c, p, o) :
         c \in {"abc001", "abc002"}, p \in {"a", "b"}, o \in {"x", "y"} }

\* The conflict target (contest_problem::contest_id, contest_problem::problem_id).
ConflictTarget(r) == <<r.contest_id, r.problem_id>>

DieselError == "diesel::result::Error"

\* INSERT ... ON CONFLICT (contest_id, problem_id) DO UPDATE: a row whose key
\* is taken replaces the stored row.
RECURSIVE InsertedOrUpdated(_, _)
InsertedOrUpdated(table, rows) ==
    IF rows = <<>> THEN [table |-> table, count |-> 0]
    ELSE LET r == Head(rows)
             kept == { q \in table : ConflictTarget(q) # ConflictTarget(r) }
             rest == InsertedOrUpdated(kept \cup {r}, Tail(rows))
         IN  [table |-> rest.table, count |-> rest.count + 1]

\* INSERT INTO contest_problem VALUES rows ON CONFLICT (contest_id,
\* problem_id) DO NOTHING, row after row: a row whose key is taken, by a
\* stored row or by an earlier row of the statement, is passed over; count
\* is the number of rows the store reports as inserted.
RECURSIVE InsertedOrNothing(_, _)
InsertedOrNothing(table, rows) ==
    IF rows = <<>> THEN [table |-> table, count |-> 0]
    ELSE LET r == Head(rows)
         IN  IF \E q \in table : ConflictTarget(q) = ConflictTarget(r)
             THEN InsertedOrNothing(table, Tail(rows))
             ELSE LET rest == InsertedOrNothing(table \cup {r}, Tail(rows))
                  IN  [table |-> rest.table, count |-> rest.count + 1]

InsertContestProblem ==
    /\ ret.op = "none"
    /\ \E contest_problems \in SeqsUpTo(ContestProblems, MaxBatch) :
          \/ LET done == InsertedOrNothing(contest_problem, contest_problems)
             IN  /\ contest_problem' = done.table
                 /\ ret' = [op |-> "insert_contest_problem",
                            args |-> <<contest_problems>>,
                            value |-> Ok(done.count)]
          \/ /\ contest_problem' = contest_problem
             /\ ret' = [op |-> "insert_contest_problem",
                        args |-> <<contest_problems>>,
                        value |-> Err(DieselError)]
    /\ UNCHANGED <<contests, items, pc, arg, tx, snap, result, participants,
                   internal_users>>

\* contest_problem::table.load: every row of the table, in no stated order.
LoadContestProblem ==
    /\ ret.op = "none"
    /\ \/ ret' = [op |-> "load_contest_problem", args |-> <<>>,
                  value |-> Ok(contest_problem)]
       \/ ret' = [op |-> "load_contest_problem", args |-> <<>>,
                  value |-> Err(DieselError)]
    /\ UNCHANGED <<others, contests, items, pc, arg, tx, snap, result>>

NextCatalog ==
    \/ InsertContestProblem
    \/ LoadContestProblem
    \/ Return

SpecCatalog == Init /\ [][NextCatalog]_vars

\* Every row of the slice has its key in the table.
AllKeysIn(table, rows) ==
    \A r \in SeqRange(rows) :
        \E q \in table : ConflictTarget(q) = ConflictTarget(r)

\* C20: insert_contest_problem never overwrites or duplicates a stored
\* (contest_id, problem_id) row: every stored row stays as it is, the rows
\* of the slice whose key is taken are passed over, the count returned is
\* the number of rows inserted, and a slice whose keys are all stored, as
\* they are once it has been inserted, returns 0 and leaves the table as
\* it is, which is what load_contest_problem returns.
C20_InsertSkipsStoredKeys ==
    [][ /\ (Calls_("insert_contest_problem") /\ ret'.value.ok) =>
              LET rows == ret'.args[1]
              IN  /\ contest_problem \subseteq contest_problem'
                  /\ \A r, q \in contest_problem' :
                        ConflictTarget(r) = ConflictTarget(q) => r = q
                  /\ contest_problem' \ contest_problem \subseteq SeqRange(rows)
                  /\ ret'.value.val
                        = Cardinality(contest_problem' \ contest_problem)
                  /\ AllKeysIn(contest_problem', rows)
                  /\ AllKeysIn(contest_problem, rows) =>
                        /\ ret'.value.val = 0
                        /\ contest_problem' = contest_problem
        /\ (Calls_("load_contest_problem") /\ ret'.value.ok) =>
              ret'.value.val = contest_problem
      ]_vars

\* C20 witness: of a slice of two rows one was inserted, and the other,
\* which differs from the stored row of its key, was passed over.
C20_Witness ==
    /\ ret.op = "insert_contest_problem"
    /\ ret.value.ok
    /\ ret.value.val = 1
    /\ ret.args[1] = <<ContestProblem("abc001", "a", "y"),
                       ContestProblem("abc002", "b", "x")>>
    /\ contest_problem = { ContestProblem("abc001", "a", "x"),
                           ContestProblem("abc002", "b", "x") }

============================================================================
